---- MODULE Spec2Model ----
(***************************************************************************)
(* The task-scoped progress-streaming pipeline of backend/main_api.py:     *)
(* the registry active_connections, VideoProcessor.send_status, the five   *)
(* stages of VideoProcessor, the coordinator process_video, the channel    *)
(* endpoint websocket_endpoint and download_pdf.                           *)
(*                                                                         *)
(* The server is one asyncio event loop: a coroutine runs without          *)
(* interruption from one await to the next.  Every action below is one     *)
(* such uninterrupted piece of a handler.                                  *)
(***************************************************************************)
EXTENDS Integers, Sequences, FiniteSets, TLC

\* ---------------------------------------------------------------- bounds
MaxRuns == 2        \* submissions to process_video
MaxChannels == 2    \* websockets opened on /ws/{task_id}
MaxTasks == 2       \* distinct task ids
MaxSegments == 2    \* segments whisper returns for one audio track
MaxAlive == 1       \* liveness messages the endpoint loops deliver
MaxTotal == 20      \* segments of the track in the study of transcribe_audio

\* ------------------------------------------------------ program constants
PollLimit == 6      \* for _ in range(6)

Runs == 1..MaxRuns
Channels == 1..MaxChannels
TaskIds == 1..MaxTasks

NoChannel == 0      \* task_id not in active_connections
NoProgress == -1    \* progress=None: the message carries no progress key
NoTask == 0
NoRun == 0
Earlier == -1       \* a run of an earlier life of the server

\* The stages in the order process_video calls them; 5 is the render step.
StageName == <<"save_uploaded_video", "extract_audio", "transcribe_audio",
               "summarize_text", "save_summary_as_pdf">>
\* What a stage leaves behind when its work succeeds.
StageArtifact == <<"video", "audio", "transcript", "summary", "pdf">>
\* The detail of the HTTPException a failed stage raises.
StageDetail == <<"Failed to save video", "Audio extraction failed",
                 "Transcription failed", "Summarization failed",
                 "PDF generation failed">>
\* progress= of the first send_status of a stage
StartProgress == <<10, 30, 55, 80, 95>>
\* progress= of the send_status that ends the stage's try block
CompleteProgress == <<20, 50, 70, 90, 100>>

\* 55 + int((i / total_segments) * 15); the float quotient floors to the
\* integer quotient for every 0 <= i < total (checked up to total = 3000).
SegmentProgressNoBase(i, total) == (i * 15) \div total
SegmentProgressInclusive(i, total) == 55 + (((i + 1) * 15) \div total)
SegmentProgress(i, total) == 55 + ((i * 15) \div total)

\* The exceptions a send_json on a channel whose client is gone raises.
SendErrors == {"WebSocketDisconnect", "RuntimeError"}

VARIABLES
    active_connections, \* task id -> registered channel, or NoChannel
    websockets,         \* channel -> its endpoint coroutine and its client
    run,                \* run -> the process_video call and its processor
    pdf_files,          \* task id -> the run that wrote downloads/<id>.pdf last
    alive               \* the liveness messages delivered so far

vars == <<active_connections, websockets, run, pdf_files, alive>>

NoResult == [kind |-> "none", detail |-> "", summary |-> NoRun, pdf |-> NoTask]

InitRun ==
    [task |-> NoTask, phase |-> "unsubmitted", polls |-> 0,
     websocket |-> NoChannel, stage |-> 0, at |-> "",
     segment |-> 0, total_segments |-> 0, inflight |-> NoChannel,
     completed |-> <<>>, failed_stage |-> 0, render_tasks |-> 0,
     result |-> NoResult,
     shown |-> NoProgress, dropped |-> FALSE, send_failed |-> ""]

InitWebsocket ==
    [task |-> NoTask, client |-> "none", endpoint |-> "unopened"]

\* The registry starts empty.  os.makedirs(UPLOAD_DIR, exist_ok=True) keeps
\* what the directory holds: a document of an earlier run may be there.
Init ==
    /\ active_connections = [t \in TaskIds |-> NoChannel]
    /\ websockets = [c \in Channels |-> InitWebsocket]
    /\ run = [r \in Runs |-> InitRun]
    /\ pdf_files \in [TaskIds -> {NoRun, Earlier}]
    /\ alive = 0

\* ------------------------------------------------------------ send_status
\* The places of a stage at which it awaits send_status.
SendPoints == {"start", "segment", "complete", "fail"}

\* The progress argument of the send_status call the run is at.
ProgressOnFailure(rr) ==
    CASE rr.at = "start" -> StartProgress[rr.stage]
      [] rr.at = "segment" -> SegmentProgress(rr.segment, rr.total_segments)
      [] rr.at = "complete" -> CompleteProgress[rr.stage]
      [] OTHER -> 0
Progress(rr) ==
    CASE rr.at = "start" -> StartProgress[rr.stage]
      [] rr.at = "segment" -> SegmentProgress(rr.segment, rr.total_segments)
      [] rr.at = "complete" -> CompleteProgress[rr.stage]
      [] OTHER -> NoProgress

\* What becomes of the send_status call the run is at.  Beside the state
\* of the code the run keeps a record of it: shown is the progress of the
\* last message delivered, dropped tells that an update found no entry,
\* send_failed names the place of the last send that raised.
Delivered(rr) ==
    [rr EXCEPT !.inflight = NoChannel,
               !.shown = IF Progress(rr) # NoProgress THEN Progress(rr) ELSE @]

SendFailed(rr) == [rr EXCEPT !.inflight = NoChannel, !.send_failed = rr.at]

Dropped(rr) == [rr EXCEPT !.dropped = TRUE]

\* except (WebSocketDisconnect, RuntimeError)
CaughtOnlyDisconnect(e) == e = "WebSocketDisconnect"
CaughtOnlyRuntime(e) == e = "RuntimeError"
CaughtNothing(e) == FALSE
Caught(e) == e \in {"WebSocketDisconnect", "RuntimeError"}

\* active_connections[self.task_id]: the channel send_status sends on
TargetAny(rr, conns) ==
    conns[CHOOSE t \in TaskIds :
             conns[t] # NoChannel /\ \A u \in TaskIds : conns[u] # NoChannel => t <= u]
Target(rr, conns) == conns[rr.task]

\* raise HTTPException(...) in a stage's except block.  process_video turns
\* it into {"error": e.detail}; raised by the detached render step it has
\* no caller.
RaisedContinues(rr) ==
    IF rr.stage < 4 THEN [rr EXCEPT !.stage = @ + 1, !.at = "start"]
    ELSE [rr EXCEPT !.phase = "ended"]
RaisedMixed(rr) ==
    [rr EXCEPT !.phase = "ended",
               !.result = [kind |-> "error", detail |-> StageDetail[rr.stage],
                           summary |-> NoRun, pdf |-> rr.task]]
RaisedToCaller(rr) ==
    [rr EXCEPT !.phase = "ended",
               !.result = [kind |-> "error", detail |-> StageDetail[rr.stage],
                           summary |-> NoRun, pdf |-> NoTask]]
Raised(rr) ==
    IF rr.stage <= 4
    THEN [rr EXCEPT !.phase = "ended",
                    !.result = [kind |-> "error", detail |-> StageDetail[rr.stage],
                                summary |-> NoRun, pdf |-> NoTask]]
    ELSE [rr EXCEPT !.phase = "ended"]

\* background_tasks.add_task(...); return {"summary": ..., "pdf": ...}
RespondedUnscheduled(rr, r) ==
    [rr EXCEPT !.stage = 5, !.at = "scheduled",
               !.result = [kind |-> "success", detail |-> "",
                           summary |-> r, pdf |-> rr.task]]
Responded(rr, r) ==
    [rr EXCEPT !.stage = 5, !.at = "scheduled", !.render_tasks = @ + 1,
               !.result = [kind |-> "success", detail |-> "",
                           summary |-> r, pdf |-> rr.task]]

\* The run after the send_status call it is at has returned normally.
ReturnedUnordered(rr, r) ==
    CASE rr.at = "start" ->
            IF rr.stage < 4
            THEN [rr EXCEPT !.stage = @ + 1, !.at = "start"]
            ELSE [rr EXCEPT !.at = "work"]
      [] rr.at = "segment" ->
            IF rr.segment + 1 < rr.total_segments
            THEN [rr EXCEPT !.segment = @ + 1]
            ELSE [rr EXCEPT !.at = "complete"]
      [] rr.at = "complete" ->
            IF rr.stage < 4
            THEN [rr EXCEPT !.stage = @ + 1, !.at = "start",
                            !.segment = 0, !.total_segments = 0]
            ELSE IF rr.stage = 4 THEN Responded(rr, r)
            ELSE [rr EXCEPT !.phase = "ended"]
      [] OTHER -> Raised(rr)
Returned(rr, r) ==
    CASE rr.at = "start" -> [rr EXCEPT !.at = "work"]
      [] rr.at = "segment" ->
            IF rr.segment + 1 < rr.total_segments
            THEN [rr EXCEPT !.segment = @ + 1]
            ELSE [rr EXCEPT !.at = "complete"]
      [] rr.at = "complete" ->
            IF rr.stage < 4
            THEN [rr EXCEPT !.stage = @ + 1, !.at = "start",
                            !.segment = 0, !.total_segments = 0]
            ELSE IF rr.stage = 4 THEN Responded(rr, r)
            ELSE [rr EXCEPT !.phase = "ended"]
      [] OTHER -> Raised(rr)

\* The run after an exception has left the send_status call it is at.
\* Inside the stage's try block the stage's except Exception takes it;
\* before the try, or inside the except block, it leaves the stage as it
\* is, and process_video (except HTTPException) does not handle it.
Escaped(rr) ==
    IF rr.at \in {"segment", "complete"}
    THEN [rr EXCEPT !.at = "fail"]
    ELSE [rr EXCEPT !.phase = "ended",
                    !.result = IF rr.stage <= 4
                               THEN [kind |-> "unhandled", detail |-> "",
                                     summary |-> NoRun, pdf |-> NoTask]
                               ELSE @]

\* The run goes on until its next await.  At a send_status call:
\* if self.task_id in active_connections, the send on
\* active_connections[self.task_id] is begun (the await of send_json);
\* otherwise the call returns at once and the routine goes on to its next
\* send_status call or to the body of the stage.
RECURSIVE send_status_unchecked(_, _, _)
send_status_unchecked(rr, r, conns) ==
    IF rr.phase # "running" \/ rr.at \notin SendPoints THEN rr
    ELSE IF conns[rr.task] # NoChannel
         THEN [rr EXCEPT !.inflight = Target(rr, conns)]
         ELSE send_status_unchecked(Escaped(Dropped(rr)), r, conns)
RECURSIVE send_status_suspended(_, _, _)
send_status_suspended(rr, r, conns) ==
    IF rr.phase # "running" \/ rr.at \notin SendPoints THEN rr
    ELSE IF rr.websocket # NoChannel
         THEN [rr EXCEPT !.inflight = Target(rr, conns)]
         ELSE send_status_suspended(Returned(Dropped(rr), r), r, conns)
RECURSIVE send_status(_, _, _)
send_status(rr, r, conns) ==
    IF rr.phase # "running" \/ rr.at \notin SendPoints THEN rr
    ELSE IF conns[rr.task] # NoChannel
         THEN [rr EXCEPT !.inflight = Target(rr, conns)]
         ELSE send_status(Returned(Dropped(rr), r), r, conns)

\* send_json returned: the message is on the channel.
SendDelivered(r) ==
    LET rr == run[r]
        c == rr.inflight
    IN /\ c # NoChannel
       /\ websockets[c].client = "connected"
       /\ run' = [run EXCEPT ![r] =
                    send_status(Returned(Delivered(rr), r), r, active_connections)]
       /\ UNCHANGED <<active_connections, websockets, pdf_files, alive>>

\* send_json raised e: caught, the entry of the task id is popped and
\* send_status returns; not caught, e leaves send_status.
SendRaises(r, e) ==
    LET rr == run[r]
        c == rr.inflight
        popped == [active_connections EXCEPT ![rr.task] = NoChannel]
    IN /\ c # NoChannel
       /\ websockets[c].client = "gone"
       /\ active_connections' = IF Caught(e) THEN popped ELSE active_connections
       /\ run' = [run EXCEPT ![r] =
                    IF Caught(e)
                    THEN send_status(Returned(SendFailed(rr), r), r, popped)
                    ELSE send_status(Escaped(SendFailed(rr)), r, active_connections)]
       /\ UNCHANGED <<websockets, pdf_files, alive>>

\* Task ids are opaque strings the clients choose: they are numbered in the
\* order of their first use.
UsedTasks ==
    {run[r].task : r \in Runs} \cup {websockets[c].task : c \in Channels}
NextTask(t) == \A u \in TaskIds : u < t => u \in UsedTasks

\* ---------------------------------------------------------- process_video
\* A client posts a file under task id t.
Submit(r, t) ==
    /\ run[r].phase = "unsubmitted"
    /\ \A q \in Runs : q < r => run[q].phase # "unsubmitted"
    /\ NextTask(t)
    /\ run' = [run EXCEPT ![r] = [@ EXCEPT !.task = t, !.phase = "awaiting_channel"]]
    /\ UNCHANGED <<active_connections, websockets, pdf_files, alive>>

\* The loop has used up its range(6).
WindowElapsedEarly(polls) == polls >= PollLimit - 1
WindowElapsedLate(polls) == polls >= PollLimit + 1
WindowElapsed(polls) == polls >= PollLimit

\* One check of the waiting loop, or the check after it.  Found: break, the
\* check after the loop passes, the processor is built and
\* save_uploaded_video runs to its first await.  Absent: sleep, or, the
\* range used up, raise HTTPException(400).
process_video(r) ==
    LET rr == run[r] IN
    /\ rr.phase = "awaiting_channel"
    /\ run' = [run EXCEPT ![r] =
          IF active_connections[rr.task] # NoChannel
          THEN send_status([rr EXCEPT !.phase = "running", !.polls = 0,
                                      !.websocket = active_connections[rr.task],
                                      !.stage = 1, !.at = "start"],
                           r, active_connections)
          ELSE IF ~WindowElapsed(rr.polls)
               THEN [rr EXCEPT !.polls = @ + 1]
               ELSE [rr EXCEPT !.phase = "ended",
                               !.result = [kind |-> "http_400",
                                           detail |-> "No active WebSocket connection for this task.",
                                           summary |-> NoRun, pdf |-> NoTask]]]
    /\ UNCHANGED <<active_connections, websockets, pdf_files, alive>>

\* The body of a stage's try block between its first send_status and its
\* next: the file is written, the audio track extracted, the transcript
\* (of n segments), the summary or the document produced, or an exception
\* is raised and the except block is entered.
StageWork(r, ok, n) ==
    LET rr == run[r] IN
    /\ rr.phase = "running"
    /\ rr.at = "work"
    /\ (rr.stage # 3 \/ ~ok) => n = 0
    /\ run' = [run EXCEPT ![r] =
          IF ok
          THEN send_status([rr EXCEPT !.completed = Append(@, rr.stage),
                                      !.segment = 0, !.total_segments = n,
                                      !.at = IF n > 0 THEN "segment" ELSE "complete"],
                           r, active_connections)
          ELSE send_status([rr EXCEPT !.at = "fail", !.failed_stage = rr.stage],
                           r, active_connections)]
    /\ pdf_files' = IF ok /\ rr.stage = 5
                    THEN [pdf_files EXCEPT ![rr.task] = r]
                    ELSE pdf_files
    /\ UNCHANGED <<active_connections, websockets, alive>>

\* The response has been sent and the background task starts.
RenderStarts(r) ==
    LET rr == run[r] IN
    /\ rr.phase = "running"
    /\ rr.at = "scheduled"
    /\ run' = [run EXCEPT ![r] =
                 send_status([rr EXCEPT !.at = "start"], r, active_connections)]
    /\ UNCHANGED <<active_connections, websockets, pdf_files, alive>>

\* ------------------------------------------------------ websocket_endpoint
\* accept, then active_connections[task_id] = websocket
websocket_endpoint(c, t) ==
    /\ websockets[c].endpoint = "unopened"
    /\ \A d \in Channels : d < c => websockets[d].endpoint # "unopened"
    /\ NextTask(t)
    /\ websockets' = [websockets EXCEPT ![c] =
                        [task |-> t, client |-> "connected", endpoint |-> "loop"]]
    /\ active_connections' = [active_connections EXCEPT ![t] = c]
    /\ UNCHANGED <<run, pdf_files, alive>>

\* sleep(2), then send_json({"status": "WebSocket Connection Active"})
KeepAlive(c) ==
    /\ websockets[c].endpoint = "loop"
    /\ websockets[c].client = "connected"
    /\ alive < MaxAlive
    /\ alive' = alive + 1
    /\ UNCHANGED <<active_connections, websockets, run, pdf_files>>

\* The liveness send raises e: except WebSocketDisconnect pops the task id;
\* any other exception ends the endpoint without the pop.
KeepAliveRaises(c, e) ==
    /\ websockets[c].endpoint = "loop"
    /\ websockets[c].client = "gone"
    /\ IF e = "WebSocketDisconnect"
       THEN /\ websockets' = [websockets EXCEPT ![c].endpoint = "ended"]
            /\ active_connections' =
                  [active_connections EXCEPT ![websockets[c].task] = NoChannel]
       ELSE /\ websockets' = [websockets EXCEPT ![c].endpoint = "ended"]
            /\ active_connections' = active_connections
    /\ UNCHANGED <<run, pdf_files, alive>>

\* The client of channel c goes away.
ClientDisconnects(c) ==
    /\ websockets[c].client = "connected"
    /\ websockets' = [websockets EXCEPT ![c].client = "gone"]
    /\ UNCHANGED <<active_connections, run, pdf_files, alive>>

\* ------------------------------------------------------------ download_pdf
\* if not os.path.exists(pdf_path): 404, else the file
download_pdf_unchecked(t) == [status |-> 200, document |-> pdf_files[t]]
download_pdf(t) ==
    IF pdf_files[t] = NoRun
    THEN [status |-> 404, document |-> NoRun]
    ELSE [status |-> 200, document |-> pdf_files[t]]

\* ------------------------------------------------------------------- Next
Next ==
    \/ \E r \in Runs, t \in TaskIds : Submit(r, t)
    \/ \E r \in Runs : process_video(r)
    \/ \E r \in Runs : SendDelivered(r)
    \/ \E r \in Runs, e \in SendErrors : SendRaises(r, e)
    \/ \E r \in Runs, ok \in BOOLEAN, n \in 0..MaxSegments : StageWork(r, ok, n)
    \/ \E r \in Runs : RenderStarts(r)
    \/ \E c \in Channels, t \in TaskIds : websocket_endpoint(c, t)
    \/ \E c \in Channels : KeepAlive(c)
    \/ \E c \in Channels, e \in SendErrors : KeepAliveRaises(c, e)
    \/ \E c \in Channels : ClientDisconnects(c)

\* Every interleaving of MaxRuns submissions and MaxChannels channels.
Spec == Init /\ [][Next]_vars

\* The same with one submission: no run after the first is ever posted.
NextSolo ==
    \/ \E t \in TaskIds : Submit(1, t)
    \/ \E r \in Runs : process_video(r)
    \/ \E r \in Runs : SendDelivered(r)
    \/ \E r \in Runs, e \in SendErrors : SendRaises(r, e)
    \/ \E r \in Runs, ok \in BOOLEAN, n \in 0..MaxSegments : StageWork(r, ok, n)
    \/ \E r \in Runs : RenderStarts(r)
    \/ \E c \in Channels, t \in TaskIds : websocket_endpoint(c, t)
    \/ \E c \in Channels : KeepAlive(c)
    \/ \E c \in Channels, e \in SendErrors : KeepAliveRaises(c, e)
    \/ \E c \in Channels : ClientDisconnects(c)

SpecSolo == Init /\ [][NextSolo]_vars

\* ------------------------------------------------------- transcribe_audio
\* transcribe_audio on its own: a run whose channel is open and stays open
\* has completed ingest and extraction and is sending the "Transcribing
\* audio" message (55); whisper returns 0..MaxTotal segments.
InitTranscribe ==
    /\ active_connections = [t \in TaskIds |-> IF t = 1 THEN 1 ELSE NoChannel]
    /\ websockets = [c \in Channels |->
                       IF c = 1
                       THEN [task |-> 1, client |-> "connected", endpoint |-> "loop"]
                       ELSE InitWebsocket]
    /\ run = [r \in Runs |->
                IF r = 1
                THEN [InitRun EXCEPT !.task = 1, !.phase = "running",
                                     !.websocket = 1, !.stage = 3, !.at = "start",
                                     !.inflight = 1, !.completed = <<1, 2>>,
                                     !.shown = 50]
                ELSE InitRun]
    /\ pdf_files = [t \in TaskIds |-> NoRun]
    /\ alive = 0

NextTranscribe ==
    \/ \E r \in Runs : SendDelivered(r)
    \/ \E r \in Runs, ok \in BOOLEAN, n \in 0..MaxTotal : StageWork(r, ok, n)
    \/ \E r \in Runs : RenderStarts(r)

SpecTranscribe == InitTranscribe /\ [][NextTranscribe]_vars

\* ------------------------------------------------------------ two task ids
\* Two submissions under different task ids, with every interleaving of
\* their steps and of the opens, closes and failing sends of the channels.
\* The tracks have no segments, downloads/ starts empty and the liveness
\* messages that are delivered (they change nothing) are left out.
InitPair ==
    /\ active_connections = [t \in TaskIds |-> NoChannel]
    /\ websockets = [c \in Channels |-> InitWebsocket]
    /\ run = [r \in Runs |-> InitRun]
    /\ pdf_files = [t \in TaskIds |-> NoRun]
    /\ alive = 0

NextPair ==
    \/ \E r \in Runs, t \in TaskIds :
          Submit(r, t) /\ \A q \in Runs : run[q].task # t
    \/ \E r \in Runs : process_video(r)
    \/ \E r \in Runs : SendDelivered(r)
    \/ \E r \in Runs, e \in SendErrors : SendRaises(r, e)
    \/ \E r \in Runs, ok \in BOOLEAN : StageWork(r, ok, 0)
    \/ \E r \in Runs : RenderStarts(r)
    \/ \E c \in Channels, t \in TaskIds : websocket_endpoint(c, t)
    \/ \E c \in Channels, e \in SendErrors : KeepAliveRaises(c, e)
    \/ \E c \in Channels : ClientDisconnects(c)

SpecPair == InitPair /\ [][NextPair]_vars

\* ================================================================ claims
\* A step of run r is possible: the run is not blocked.
CanStep(r) ==
    ENABLED (\/ process_video(r)
             \/ SendDelivered(r)
             \/ \E e \in SendErrors : SendRaises(r, e)
             \/ \E ok \in BOOLEAN, n \in 0..MaxSegments : StageWork(r, ok, n)
             \/ RenderStarts(r))

\* Every send_status call the run has made so far was delivered.
AllDelivered(rr) == ~rr.dropped /\ rr.send_failed = ""

\* No channel was ever opened for task id t.
NeverRegistered(t) == \A c \in Channels : websockets[c].task # t

\* The stages whose body has succeeded, as a set.
Done(rr) == {rr.completed[i] : i \in 1..Len(rr.completed)}

\* The place of a run in process_video and in the stage it is in.
Place(rr) == <<rr.phase, rr.stage, rr.at, rr.segment>>

\* The channel opened last for task id t (NoChannel: none was).
Newest(ws, t) ==
    LET cs == {c \in Channels : ws[c].task = t}
    IN IF cs = {} THEN NoChannel ELSE CHOOSE c \in cs : \A d \in cs : d <= c

\* ---------------------------------------------------------------- C1
\* The highest progress value a stage may report.
StageCeiling == <<20, 50, 70, 90, 100>>

\* C1: within one run the progress values that reach the channel never
\* decrease: every message being sent carries a progress that is at least
\* the progress delivered last; a message of ingest carries at most 20, of
\* extraction at most 50, of transcription at most 70, of summarization at
\* most 90, each above the ceiling of the stage before; and a run all of
\* whose messages were delivered and whose render step finished has shown
\* exactly 100 last.
C1_ProgressNonDecreasing ==
    \A r \in Runs :
        LET rr == run[r] IN
        /\ (rr.inflight # NoChannel /\ Progress(rr) # NoProgress) =>
              /\ Progress(rr) >= rr.shown
              /\ Progress(rr) <= StageCeiling[rr.stage]
              /\ Progress(rr) >= 10
              /\ rr.stage > 1 => Progress(rr) > StageCeiling[rr.stage - 1]
        /\ (rr.phase = "ended" /\ rr.completed = <<1, 2, 3, 4, 5>> /\ AllDelivered(rr)) =>
              rr.shown = 100

\* A run whose channel stayed open has finished its render step with every
\* message delivered.
C1_Witness ==
    \E r \in Runs :
        /\ run[r].phase = "ended"
        /\ run[r].completed = <<1, 2, 3, 4, 5>>
        /\ AllDelivered(run[r])
        /\ run[r].shown = 100

\* ---------------------------------------------------------------- C2
\* C2: a submission under a task id for which no channel was ever opened
\* never starts a stage: it writes no artifact, schedules no render and
\* sends nothing; it keeps waiting (it is never blocked) until it fails with
\* the HTTP 400 "No active WebSocket connection" error, and it fails only
\* after all 6 sleeps of the waiting loop.
C2_NoViewerFails ==
    \A r \in Runs :
        LET rr == run[r] IN
        (rr.phase # "unsubmitted" /\ NeverRegistered(rr.task)) =>
            /\ rr.stage = 0
            /\ rr.completed = <<>>
            /\ rr.render_tasks = 0
            /\ rr.inflight = NoChannel
            /\ pdf_files[rr.task] # r
            /\ rr.polls <= 6
            /\ rr.phase = "awaiting_channel" => (rr.result = NoResult /\ CanStep(r))
            /\ rr.phase # "awaiting_channel" =>
                  /\ rr.phase = "ended"
                  /\ rr.result.kind = "http_400"
                  /\ rr.result.summary = NoRun
                  /\ rr.polls = 6

\* A submission without a viewer has failed.
C2_Witness ==
    \E r \in Runs :
        /\ NeverRegistered(run[r].task)
        /\ run[r].result.kind = "http_400"
        /\ run[r].polls = 6

\* ---------------------------------------------------------------- C3
\* C3: once the body of one of the stages 1-4 has failed, the run never
\* enters a later stage: the stages completed are exactly the ones before
\* the failed stage, no render is scheduled and no document is written by
\* the run; the run is sending the stage's failure message or has ended,
\* and it ends with the error payload whose detail names the failed stage.
C3_FailureHalts ==
    \A r \in Runs :
        LET rr == run[r] IN
        rr.failed_stage \in 1..4 =>
            /\ rr.stage = rr.failed_stage
            /\ rr.completed = [i \in 1..(rr.failed_stage - 1) |-> i]
            /\ rr.render_tasks = 0
            /\ pdf_files[rr.task] # r
            /\ rr.phase = "ended" \/ (rr.phase = "running" /\ rr.at = "fail")
            /\ rr.phase = "ended" =>
                  rr.result = [kind |-> "error",
                               detail |-> StageDetail[rr.failed_stage],
                               summary |-> NoRun, pdf |-> NoTask]

\* extract_audio has failed: no transcript, no summary, no document, and
\* the error names the audio extraction.
C3_Witness ==
    \E r \in Runs :
        /\ run[r].failed_stage = 2
        /\ run[r].phase = "ended"
        /\ run[r].completed = <<1>>
        /\ run[r].result.detail = "Audio extraction failed"

\* ---------------------------------------------------------------- C4
\* C4: a run that has entered Running and none of whose stages 1-4 has
\* failed is never stopped, whatever happens to its channel: it is never
\* blocked while it runs, it never enters a failure path in the stages 1-4,
\* its response is never an error, and once summarization is through the
\* response is the success payload with the summary of this run.
C4_CloseDoesNotStop ==
    \A r \in Runs :
        LET rr == run[r] IN
        (rr.stage >= 1 /\ rr.failed_stage \notin 1..4) =>
            /\ rr.phase = "running" => CanStep(r)
            /\ rr.stage <= 4 => (rr.phase = "running" /\ rr.at # "fail")
            /\ rr.result.kind \in {"none", "success"}
            /\ rr.stage = 5 =>
                  /\ rr.result.kind = "success"
                  /\ rr.result.summary = r
                  /\ {1, 2, 3, 4} \subseteq Done(rr)

\* The channel closed while the run was in an earlier stage (a send raised
\* in extract_audio, or later updates found no entry), and the run still
\* returned the summary.
C4_Witness ==
    \E r \in Runs :
        /\ run[r].result.kind = "success"
        /\ run[r].send_failed # ""
        /\ run[r].dropped
        /\ run[r].shown <= 50

\* ---------------------------------------------------------------- C5
\* C5: in a step in which the send of a run raises (its send_json was in
\* flight on a channel whose client is gone), the entry of the task id is
\* removed from the registry, the stage is not marked failed, no exception
\* leaves process_video unhandled, a stage that was sending its "starting",
\* segment or "complete" message does not enter its failure path and
\* the response is unchanged unless the run responds with success, and a
\* stage that was sending its failure message ends the run with that
\* stage's own error.
C5_SendFailureLocal ==
    [][\A r \in Runs :
          LET rr == run[r]
              new == run'[r]
          IN (/\ rr.inflight # NoChannel
              /\ websockets[rr.inflight].client = "gone"
              /\ new # rr) =>
                 /\ active_connections'[rr.task] = NoChannel
                 /\ \A t \in TaskIds : t # rr.task =>
                        active_connections'[t] = active_connections[t]
                 /\ new.failed_stage = rr.failed_stage
                 /\ new.result.kind \in {"none", "success", "error"}
                 /\ rr.at \in {"start", "segment", "complete"} =>
                        /\ new.at # "fail"
                        /\ new.result.kind \in {"none", "success"}
                        /\ new.phase = "running" \/ rr.stage = 5
                 /\ rr.at = "fail" =>
                        /\ new.phase = "ended"
                        /\ rr.stage <= 4 =>
                              (new.result.kind = "error"
                               /\ new.result.detail = StageDetail[rr.stage])
      ]_vars

\* The send of a stage's "complete" message raised; the entry is gone and
\* the run goes on with no stage failed.
C5_Witness ==
    \E r \in Runs :
        /\ run[r].send_failed = "complete"
        /\ run[r].failed_stage = 0
        /\ run[r].phase = "running"
        /\ active_connections[run[r].task] = NoChannel

\* ---------------------------------------------------------------- C6
\* C6: the response of process_video is one of two payloads and never a
\* mix.  It is the success payload, with the summary of this run and the
\* reference to the document of its task id, exactly when the run has got
\* past summarization, and then ingest, extract, transcribe and summarize
\* have completed in this order; an error payload carries no summary and no
\* document reference and belongs to a run that has not completed the four
\* stages; a run that has ended has a response.
C6_SuccessOrError ==
    \A r \in Runs :
        LET rr == run[r] IN
        /\ rr.result.kind \in {"none", "success", "error", "http_400"}
        /\ rr.result.kind = "success" <=> rr.stage = 5
        /\ rr.result.kind = "success" =>
              /\ SubSeq(rr.completed, 1, 4) = <<1, 2, 3, 4>>
              /\ rr.result.summary = r
              /\ rr.result.pdf = rr.task
              /\ rr.result.detail = ""
        /\ rr.result.kind \in {"error", "http_400"} =>
              /\ rr.result.summary = NoRun
              /\ rr.result.pdf = NoTask
              /\ rr.result.detail # ""
              /\ Len(rr.completed) < 4
              /\ rr.render_tasks = 0
        /\ rr.phase = "ended" => rr.result.kind # "none"
        /\ rr.completed = <<1, 2, 3, 4>> /\ rr.phase = "ended" => rr.result.kind = "success"

\* The four stages completed and the success payload was returned.
C6_Witness ==
    \E r \in Runs :
        /\ run[r].result.kind = "success"
        /\ run[r].completed = <<1, 2, 3, 4>>
        /\ run[r].at = "scheduled"

\* ---------------------------------------------------------------- C7
\* The 'PDF generation complete' message of the run has been reported.
RenderReported(rr) ==
    /\ rr.stage = 5
    /\ 5 \in Done(rr)
    /\ rr.at = "complete" \/ rr.phase = "ended"

\* C7 as claimed: from the success response until the run's render step has
\* written the document download_pdf answers 404, after the run's 'PDF
\* generation complete' message it answers with a document, and the
\* document is never one that the run's render step did not produce.
C7_AsClaimed ==
    \A r \in Runs :
        LET rr == run[r] IN
        rr.result.kind = "success" =>
            /\ 5 \notin Done(rr) => download_pdf(rr.task).status = 404
            /\ RenderReported(rr) => download_pdf(rr.task).status = 200
            /\ download_pdf(rr.task).document \in {NoRun, r}

\* C7 as amended: as long as downloads/ holds no document that another run
\* (an earlier or a concurrent one under the same task id) wrote for the
\* task id, download_pdf answers 404 from the success response until the
\* run's render step has written the document, and a document it serves as
\* that of the run was produced by the run's render step; after the run's
\* 'PDF generation complete' message it always answers with a document.
C7_Download ==
    \A r \in Runs :
        LET rr == run[r] IN
        rr.result.kind = "success" =>
            /\ (pdf_files[rr.task] \in {NoRun, r} /\ 5 \notin Done(rr)) =>
                  download_pdf(rr.task).status = 404
            /\ download_pdf(rr.task).document = r => 5 \in Done(rr)
            /\ RenderReported(rr) =>
                  /\ download_pdf(rr.task).status = 200
                  /\ download_pdf(rr.task).document # NoRun

\* The render step is through and download_pdf serves the run's document.
C7_Witness ==
    \E r \in Runs :
        /\ run[r].result.kind = "success"
        /\ RenderReported(run[r])
        /\ run[r].phase = "ended"
        /\ download_pdf(run[r].task) = [status |-> 200, document |-> r]

\* ---------------------------------------------------------------- C8
\* C8 as claimed: the registry holds for a task id at most the channel
\* opened last for it; a send a run begins goes to that channel; and once
\* the channel the run started with is replaced, no status update of the
\* run is dropped while the client of the replacing channel is connected.
C8_AsClaimed ==
    [][/\ \A t \in TaskIds :
             active_connections'[t] \in {NoChannel, Newest(websockets', t)}
       /\ \A r \in Runs :
             LET rr == run[r]
                 new == run'[r]
                 c == Newest(websockets, rr.task)
             IN /\ (new.inflight # NoChannel /\ Place(new) # Place(rr)) =>
                       new.inflight = Newest(websockets', new.task)
                /\ (/\ rr.phase = "running"
                    /\ c # rr.websocket
                    /\ websockets[c].client = "connected"
                    /\ websockets'[c].client = "connected") =>
                       new.dropped = rr.dropped
      ]_vars

\* ---------------------------------------------------------------- C9
\* C9: once the body of one of the stages 1-4 has failed, the run is either
\* sending the failure message (and is not blocked) with no response yet,
\* or it has ended with the error payload of exactly that stage: whether
\* the failure message found no entry, was delivered, or its send raised.
C9_ErrorReturned ==
    \A r \in Runs :
        LET rr == run[r] IN
        /\ rr.result.kind # "unhandled"
        /\ rr.failed_stage \in 1..4 =>
              \/ /\ rr.phase = "running"
                 /\ rr.at = "fail"
                 /\ rr.inflight # NoChannel
                 /\ rr.result = NoResult
                 /\ CanStep(r)
              \/ /\ rr.phase = "ended"
                 /\ rr.result.kind = "error"
                 /\ rr.result.detail = StageDetail[rr.failed_stage]

\* The push of the failure message itself raised, and the stage's error
\* was returned.
C9_Witness ==
    \E r \in Runs :
        /\ run[r].failed_stage \in 1..4
        /\ run[r].send_failed = "fail"
        /\ run[r].result.kind = "error"
        /\ run[r].result.detail = StageDetail[run[r].failed_stage]

\* ---------------------------------------------------------------- C10
\* C10: in a step of a running run that makes its send_status calls while
\* the registry has no entry for its task id, nothing is sent (no send is
\* begun and the progress shown stays), the registry is unchanged for every
\* id, no exception leaves process_video, the update counts as dropped,
\* and the stage continues: a stage body that succeeded does not enter the
\* failure path.
C10_DropSilently ==
    [][\A r \in Runs :
          LET rr == run[r]
              new == run'[r]
          IN (/\ rr.phase = "running"
              /\ rr.inflight = NoChannel
              /\ active_connections[rr.task] = NoChannel
              /\ new # rr) =>
                 /\ new.inflight = NoChannel
                 /\ new.shown = rr.shown
                 /\ new.send_failed = rr.send_failed
                 /\ new.dropped
                 /\ active_connections' = active_connections
                 /\ new.result.kind # "unhandled"
                 /\ new.completed # rr.completed =>
                        (new.failed_stage = rr.failed_stage /\ new.at # "fail")
                 /\ new.completed = rr.completed /\ rr.at = "work" =>
                        new.failed_stage = rr.stage
      ]_vars

\* An update of a run was dropped while another task id had its entry; the
\* run went on and returned the summary.
C10_Witness ==
    \E r \in Runs :
        /\ run[r].dropped
        /\ run[r].result.kind = "success"
        /\ active_connections[run[r].task] = NoChannel
        /\ \E t \in TaskIds : t # run[r].task /\ active_connections[t] # NoChannel

\* ---------------------------------------------------------------- C11
\* The order in which a run reports: by stage, and within a stage the
\* "starting" message, the body, the segment messages in the order of the
\* segments, the "complete" message, the failure message.
AtRank(rr) ==
    CASE rr.at = "scheduled" -> 0
      [] rr.at = "start" -> 1
      [] rr.at = "work" -> 2
      [] rr.at = "segment" -> 3 + rr.segment
      [] rr.at = "complete" -> 3 + MaxSegments + 1
      [] rr.at = "fail" -> 3 + MaxSegments + 2
      [] OTHER -> 0

ReportRank(rr) ==
    IF rr.phase = "ended" THEN 6 * (3 + MaxSegments + 3)
    ELSE rr.stage * (3 + MaxSegments + 3) + AtRank(rr)

\* C11: within one run the stages start in the order ingest, extract,
\* transcribe, summarize, render, each only after the one before it has
\* completed (the stages completed are always 1..k in this order and the run
\* is in stage k or k+1; a step moves the run to the next stage only, and
\* only from a stage that has completed); and the messages reach the channel
\* in the order they were reported: the run has at most one message in
\* flight, the message delivered is the one of the place the run is at, and
\* every step of the run moves it to a later place, so the message sent next
\* was reported after every message delivered before.
C11_PipelineOrder ==
    [][\A r \in Runs :
          LET rr == run[r]
              new == run'[r]
          IN /\ new.completed = [i \in 1..Len(new.completed) |-> i]
             /\ new.stage >= 1 => Len(new.completed) \in {new.stage - 1, new.stage}
             /\ new.stage # rr.stage =>
                   /\ new.stage = rr.stage + 1
                   /\ rr.stage >= 1 => rr.stage \in Done(new)
                   /\ new.stage \notin Done(new)
             /\ (new # rr /\ rr.phase = "running") => ReportRank(new) > ReportRank(rr)
             /\ new.inflight # NoChannel => (new.phase = "running" /\ new.at \in SendPoints)
             /\ new.shown # rr.shown =>
                   /\ rr.inflight # NoChannel
                   /\ new.shown = Progress(rr)
                   /\ new.shown >= rr.shown
      ]_vars

\* The run is sending the "complete" message of the render step: the
\* five stages completed in order and every message before was delivered.
C11_Witness ==
    \E r \in Runs :
        /\ run[r].completed = <<1, 2, 3, 4, 5>>
        /\ run[r].at = "complete"
        /\ run[r].inflight # NoChannel
        /\ AllDelivered(run[r])
        /\ run[r].shown = 95

C13_AsClaimed ==
    \A r \in Runs :
        LET rr == run[r] IN
        rr.failed_stage = 5 =>
            /\ rr.result = [kind |-> "success", detail |-> "",
                            summary |-> r, pdf |-> rr.task]
            /\ rr.phase = "ended" \/ (rr.phase = "running" /\ rr.at = "fail")
            /\ download_pdf(rr.task).status = 404

\* C13 as amended: once the body of the render step has failed, the response
\* stays the success payload the run returned and no exception reaches a
\* caller; the run has written no document, so download_pdf never serves a
\* document of this run, and it answers 404 as long as downloads/ holds no
\* document another run wrote for the task id; the failure shows only as
\* the failure status message, which the run is sending (and is not
\* blocked) or has sent, lost or dropped, carrying no progress.
C13_RenderFailure ==
    \A r \in Runs :
        LET rr == run[r] IN
        rr.failed_stage = 5 =>
            /\ rr.result = [kind |-> "success", detail |-> "",
                            summary |-> r, pdf |-> rr.task]
            /\ rr.completed = <<1, 2, 3, 4>>
            /\ pdf_files[rr.task] # r
            /\ download_pdf(rr.task).document # r
            /\ pdf_files[rr.task] = NoRun => download_pdf(rr.task).status = 404
            /\ rr.shown <= 95
            /\ \/ rr.phase = "ended"
               \/ /\ rr.phase = "running"
                  /\ rr.at = "fail"
                  /\ rr.inflight # NoChannel
                  /\ Progress(rr) = NoProgress
                  /\ CanStep(r)

\* The render step failed, its failure message was delivered, the response
\* is still the summary and the document is not found.
C13_Witness ==
    \E r \in Runs :
        /\ run[r].failed_stage = 5
        /\ run[r].phase = "ended"
        /\ AllDelivered(run[r])
        /\ run[r].result.kind = "success"
        /\ download_pdf(run[r].task).status = 404

\* ---------------------------------------------------------------- C14
\* C14: the waiting loop of process_video sleeps at most 6 times.  A check
\* of the registry that finds the task id (one of the 6 checks of the loop
\* or the check after the last sleep) ends the phase at once: in the same
\* step the processor is built on the registered channel and
\* save_uploaded_video begins.  A check that finds the id absent is followed
\* by a sleep while fewer than 6 sleeps were made, and by the HTTP 400
\* no-viewer error after the 6th: the run fails this way only when every
\* check, the last included, found the id absent.  A run enters its first
\* stage only in a step whose check found the id registered.
C14_BoundedWait ==
    [][\A r \in Runs :
          LET rr == run[r]
              new == run'[r]
              found == active_connections[rr.task] # NoChannel
          IN /\ new.polls <= 6
             /\ (rr.phase = "awaiting_channel" /\ new # rr) =>
                   /\ found =>
                         /\ new.phase = "running"
                         /\ new.stage = 1
                         /\ new.websocket = active_connections[rr.task]
                         /\ new.inflight = active_connections[rr.task]
                         /\ new.result = NoResult
                   /\ (~found /\ rr.polls < 6) =>
                         /\ new.phase = "awaiting_channel"
                         /\ new.polls = rr.polls + 1
                         /\ new.stage = 0
                   /\ (~found /\ rr.polls = 6) =>
                         /\ new.phase = "ended"
                         /\ new.result.kind = "http_400"
                         /\ new.stage = 0
             /\ (rr.stage = 0 /\ new.stage # 0) =>
                   (rr.phase = "awaiting_channel" /\ found)
             /\ new.result.kind = "http_400" =>
                   (new.polls = 6 /\ new.stage = 0 /\ new.completed = <<>>)
      ]_vars

\* Every check of the window found the id absent and the run failed; the
\* channel for the id was opened only afterwards, and no stage started.
C14_Witness ==
    \E r \in Runs :
        /\ run[r].result.kind = "http_400"
        /\ run[r].polls = 6
        /\ run[r].stage = 0
        /\ active_connections[run[r].task] # NoChannel

\* ---------------------------------------------------------------- C15
\* C15: while transcribe_audio reports its segments the segment count is
\* at least 1 and the index i is in 0..total-1; the progress reported,
\* 55 + floor(i*15/total), lies in 55..69, is at least the progress shown
\* before it and below the final 70, and over all indices of the track it
\* is non-decreasing and stays in 55..69; with no segment the loop body
\* never runs (nothing is divided by the count 0) and the stage goes from
\* its 55 directly to its "complete" message, which carries 70.
C15_SegmentProgress ==
    \A r \in Runs :
        LET rr == run[r] IN
        /\ rr.at = "segment" =>
              /\ rr.stage = 3
              /\ rr.total_segments >= 1
              /\ rr.segment \in 0..(rr.total_segments - 1)
              /\ Progress(rr) = 55 + ((rr.segment * 15) \div rr.total_segments)
              /\ Progress(rr) \in 55..69
              /\ rr.shown \in 55..69
              /\ Progress(rr) >= rr.shown
              /\ \A i \in 0..(rr.total_segments - 1) :
                    /\ SegmentProgress(i, rr.total_segments) \in 55..69
                    /\ i > 0 => SegmentProgress(i, rr.total_segments)
                                  >= SegmentProgress(i - 1, rr.total_segments)
        /\ (rr.phase = "running" /\ rr.stage = 3 /\ rr.at = "complete") =>
              /\ Progress(rr) = 70
              /\ rr.shown \in 55..69
              /\ rr.total_segments = 0 => rr.shown = 55

\* The last of 16 segments is being reported: 55 + floor(15*15/16) = 69.
C15_Witness ==
    \E r \in Runs :
        /\ run[r].at = "segment"
        /\ run[r].total_segments = 16
        /\ run[r].segment = 15
        /\ Progress(run[r]) = 69
        /\ run[r].shown = 68

\* No segment: the "complete" message (70) follows the 55 directly.
C15_NoSegments ==
    \E r \in Runs :
        /\ run[r].stage = 3
        /\ run[r].at = "complete"
        /\ run[r].total_segments = 0
        /\ run[r].shown = 55

\* ---------------------------------------------------------------- C16
\* C16: the failure message of a stage (ingest, extract, transcribe,
\* summarize or render) carries no progress value: when a run comes to
\* report a failure, the message it begins to send has no progress and the
\* error is not yet in the response; the step that ends the report, whether
\* the message was delivered or its send raised, leaves the progress shown
\* as it was, and only this step hands the error to process_video, which
\* ends the run with the error of the stage.
C16_FailureMessage ==
    [][\A r \in Runs :
          LET rr == run[r]
              new == run'[r]
          IN /\ (new.phase = "running" /\ new.at = "fail") =>
                   /\ new.stage \in 1..5
                   /\ new.failed_stage = new.stage
                   /\ new.inflight # NoChannel
                   /\ Progress(new) = NoProgress
                   /\ new.result = rr.result
                   /\ new.result.kind \in {"none", "success"}
                   /\ new.shown = rr.shown
             /\ (rr.phase = "running" /\ rr.at = "fail" /\ new # rr) =>
                   /\ new.shown = rr.shown
                   /\ new.phase = "ended"
                   /\ rr.stage <= 4 =>
                         /\ rr.result = NoResult
                         /\ new.result.kind = "error"
                         /\ new.result.detail = StageDetail[rr.stage]
             /\ (new.failed_stage # rr.failed_stage /\ new.phase = "ended") =>
                   (active_connections[rr.task] = NoChannel /\ new.shown = rr.shown)
      ]_vars

\* summarize_text failed after its 80 was shown; the failure message was
\* delivered, the progress shown is still 80 and the error was returned.
C16_Witness ==
    \E r \in Runs :
        /\ run[r].failed_stage = 4
        /\ run[r].phase = "ended"
        /\ AllDelivered(run[r])
        /\ run[r].shown = 80
        /\ run[r].result.kind = "error"

\* ---------------------------------------------------------------- C17
\* No run under the task id of channel c is in its pipeline.
Idle(c) ==
    \A r \in Runs : ~(run[r].task = websockets[c].task /\ run[r].phase = "running")

\* C17 as claimed: a step that emits a liveness message is the step of an
\* endpoint whose channel is idle (no run under its task id is in its
\* pipeline); the message carries no progress (the progress shown of every
\* run stays); and a step that ends the loop of an endpoint leaves no entry
\* for the endpoint's channel in the registry.
C17_AsClaimed ==
    [][/\ alive' # alive =>
             /\ \E c \in Channels : KeepAlive(c) /\ Idle(c)
             /\ \A r \in Runs : run'[r].shown = run[r].shown
       /\ \A c \in Channels :
             (websockets[c].endpoint = "loop" /\ websockets'[c].endpoint = "ended") =>
                 active_connections'[websockets[c].task] # c
      ]_vars

\* ---------------------------------------------------------------- C18
\* C18 as claimed: an entry of the registry is the channel opened last for
\* its task id, and a step removes the entry of a task id only on behalf of
\* the channel the entry names: the endpoint of that very channel ends, or
\* a send that was in flight on that very channel fails, and the client of
\* that channel is gone.  The close of a replaced channel and a failed send
\* on a replaced channel leave the entry alone.
C18_AsClaimed ==
    [][\A t \in TaskIds :
          LET c == active_connections[t] IN
          /\ active_connections'[t] \in {NoChannel, Newest(websockets', t)}
          /\ (c # NoChannel /\ active_connections'[t] = NoChannel) =>
                /\ websockets[c].client = "gone"
                /\ \/ websockets[c].endpoint = "loop" /\ websockets'[c].endpoint = "ended"
                   \/ \E r \in Runs : run[r].inflight = c /\ run'[r] # run[r]
      ]_vars

\* ---------------------------------------------------------------- C19
\* All that belongs to task id t: its entry, its channels, its runs.
Of(t, conns, ws, rs) ==
    <<conns[t],
      {<<c, ws[c]>> : c \in {d \in Channels : ws[d].task = t}},
      {<<r, rs[r]>> : r \in {q \in Runs : rs[q].task = t}}>>

\* C19: with runs under different task ids, a status update of a run is
\* only ever in flight on a channel that was opened for the run's own task
\* id, and the entry of a task id only ever names a channel opened for that
\* id; a step in which a send of task a fails, or in which the endpoint of
\* a channel of task a ends, changes at most the entry of a and leaves the
\* entry, the channels and the runs of every other task id as they were;
\* and no step at all changes what belongs to two task ids.
C19_Isolation ==
    [][/\ \A r \in Runs :
             LET new == run'[r] IN
             /\ new.inflight # NoChannel => websockets'[new.inflight].task = new.task
             /\ new.websocket # NoChannel => websockets'[new.websocket].task = new.task
       /\ \A t \in TaskIds :
             active_connections'[t] # NoChannel =>
                 websockets'[active_connections'[t]].task = t
       /\ \A a \in TaskIds :
             LET sendFails == \E r \in Runs :
                                 /\ run[r].task = a
                                 /\ run[r].inflight # NoChannel
                                 /\ websockets[run[r].inflight].client = "gone"
                                 /\ run'[r] # run[r]
                 closes == \E c \in Channels :
                                 /\ websockets[c].task = a
                                 /\ websockets[c].endpoint = "loop"
                                 /\ websockets'[c].endpoint = "ended"
                 changed == Of(a, active_connections', websockets', run')
                              # Of(a, active_connections, websockets, run)
             IN (sendFails \/ closes \/ changed) =>
                   \A b \in TaskIds \ {a} :
                       Of(b, active_connections', websockets', run')
                         = Of(b, active_connections, websockets, run)
      ]_vars

\* Two runs under different task ids: a send of one failed and its entry
\* is gone, while the other has its entry, its channel is connected, all
\* its messages were delivered and its next is in flight on its channel.
C19_Witness ==
    \E r \in Runs, q \in Runs :
        /\ run[r].task # NoTask
        /\ run[q].task # NoTask
        /\ run[r].task # run[q].task
        /\ run[r].send_failed # ""
        /\ active_connections[run[r].task] = NoChannel
        /\ run[q].phase = "running"
        /\ run[q].stage >= 2
        /\ AllDelivered(run[q])
        /\ run[q].inflight # NoChannel
        /\ run[q].inflight = active_connections[run[q].task]
        /\ websockets[run[q].inflight].client = "connected"

\* ---------------------------------------------------------------- C20
\* C20: the membership check and the lookup that follows it see the same
\* registry.  The step in which process_video leaves the waiting loop
\* builds the processor on the entry its check found, and a run in its
\* pipeline holds a channel; a send_status call either finds no entry and
\* sends nothing, or begins its send on the entry found by its check in
\* the same step, so a run that rests at a send_status call is awaiting a
\* send on a channel and never a lookup that missed; and no exception of a
\* missed lookup ever leaves process_video, although channels are closed
\* and entries removed between the steps of the run.
C20_CheckThenUse ==
    [][\A r \in Runs :
          LET rr == run[r]
              new == run'[r]
          IN /\ (rr.phase = "awaiting_channel" /\ new.phase = "running") =>
                   /\ active_connections[rr.task] # NoChannel
                   /\ new.websocket = active_connections[rr.task]
             /\ new.phase = "running" => new.websocket # NoChannel
             /\ (new.phase = "running" /\ new.at \in SendPoints) =>
                   new.inflight # NoChannel
             /\ (new.inflight # NoChannel /\ new # rr) =>
                   new.inflight = active_connections'[new.task]
             /\ (new.dropped /\ ~rr.dropped) =>
                   /\ active_connections'[new.task] = NoChannel
                   /\ new.inflight = NoChannel
             /\ new.result.kind # "unhandled"
      ]_vars

\* The endpoint closed the channel between two sends of the run (no send
\* of the run ever raised): later updates found no entry, no lookup missed,
\* and the run returned the summary and rendered the document.
C20_Witness ==
    \E r \in Runs :
        /\ run[r].dropped
        /\ run[r].send_failed = ""
        /\ run[r].shown >= 10
        /\ run[r].phase = "ended"
        /\ run[r].completed = <<1, 2, 3, 4, 5>>
        /\ run[r].result.kind = "success"

====
